---- MODULE Spec2Model ----
(***************************************************************************)
(* A model of the stopping-distance kernel of src/stopping.py:             *)
(* calc_final_friction, stopping_distance_simple_friction,                 *)
(* stopping_distance_numeric_drag and get_distance_speed_profile.          *)
(*                                                                         *)
(* The source computes in binary floating point, and so does the model: a  *)
(* float is the tuple <<sign, exponent, m1, m2, m3, m4>> of the number     *)
(*     sign * (m1 + m2 * 2^14 + m3 * 2^28 + m4 * 2^42) * 2^exponent        *)
(* with sign 1 or -1 and a mantissa of exactly 53 bits (m4 in 1024..2047), *)
(* or Zero.  FAdd, FSub, FMul, FDiv and FDivInt return the float nearest   *)
(* to the exact result, ties to even, as the hardware does, so that the    *)
(* drift of the repeated t += dt, the cancellation of a_eff at             *)
(* mu = tan(alpha) and the residue of v + a * dt are those of the source.  *)
(* Two things are taken from the build rather than computed:               *)
(*   - cos(alpha) and sin(alpha), alpha = atan(|slope_percent| / 100), are *)
(*     the floats math.cos and math.sin return on the grades of            *)
(*     SLOPE_MENU (CosAlpha, SinAlpha);                                    *)
(*   - v ** 2 is pow(v, 2.0) of the C library, which is accurate to less   *)
(*     than one unit in the last place but not correctly rounded: it       *)
(*     returns the float below or the float above the exact square (about  *)
(*     one argument in a thousand gets the farther of the two).  Pow2 is   *)
(*     the set of these floats, and the steps that square a speed choose   *)
(*     from it.                                                            *)
(*                                                                         *)
(* The arguments of a scenario are kept as whole numbers of their decimal  *)
(* unit (0.85 is 85 hundredths) and become floats where the functions are  *)
(* called: Dec(85, 100) is the float of the literal 0.85.                  *)
(***************************************************************************)
EXTENDS Integers, Sequences, FiniteSets, TLC

VARIABLES
    pc,              \* which call of the kernel comes next
    weather_mu,      \* calc_final_friction argument, hundredths
    tyre_factor,     \* calc_final_friction argument, tenths
    abs_active,      \* calc_final_friction argument
    speed_kmh,       \* thousandths of a km/h
    slope_percent,   \* signed grade, whole percent
    reaction_time,   \* whole seconds
    dt,              \* step of stopping_distance_numeric_drag, hundredths of a second
    sample_dt,       \* step of get_distance_speed_profile, hundredths of a second
    car,             \* <<mass_kg, cd (hundredths), frontal_area (tenths of m^2)>>
    mu,              \* result of calc_final_friction, a float
    simple,          \* result of stopping_distance_simple_friction, and its local a_eff
    num,             \* frame of stopping_distance_numeric_drag: arguments and locals
    numeric,         \* result of stopping_distance_numeric_drag
    prof,            \* frame of get_distance_speed_profile and a summary of its lists
    profile,         \* result of get_distance_speed_profile (summary of the lists)
    pair             \* frames of two calls of stopping_distance_numeric_drag (PairSpec)

vars == <<pc, weather_mu, tyre_factor, abs_active, speed_kmh, slope_percent,
          reaction_time, dt, sample_dt, car, mu, simple, num, numeric, prof, profile,
          pair>>

inputs == <<weather_mu, tyre_factor, abs_active, speed_kmh, slope_percent,
            reaction_time, dt, sample_dt, car>>


-----------------------------------------------------------------------------
(* Binary floating point (IEEE 754 binary64, round to nearest, ties to even) *)

\* a mantissa is four limbs of LimbBits bits, the lowest first
LimbBits == 14
LimbBase == 16384
MantissaBits == 53
\* the top limb of a normalised mantissa is in TopLimbMin .. 2 * TopLimbMin - 1
TopLimbMin == 1024

\* 0.0 (the sign of a zero plays no part in the source)
Zero == <<0, 0, 0, 0, 0, 0>>

\* float('inf'): above every finite float
Inf == <<1, 1024, 0, 0, 0, 0>>

\* limb i of the limb sequence P, zero outside it
Limb(P, i) == IF i >= 1 /\ i <= Len(P) THEN P[i] ELSE 0

\* the mantissa of the float f
Mant(f) == <<f[3], f[4], f[5], f[6]>>

\* The limb sequence of the number whose columns (limbs not yet reduced to
\* 0 .. LimbBase - 1, negative ones allowed) are C: one limb longer than C.
\* Each column sum is bound once, as the element of a singleton.
RECURSIVE CarryFrom(_, _, _, _)
CarryFrom(C, i, k, acc) ==
    IF i > Len(C) THEN Append(acc, k)
    ELSE CHOOSE r \in {CarryFrom(C, i + 1, t \div LimbBase, Append(acc, t % LimbBase)) :
                          t \in {C[i] + k}} : TRUE

Carry(C) == CHOOSE r \in {CarryFrom(c, 1, 0, <<>>) : c \in {C}} : TRUE

\* the index of the highest non-zero limb of P among its first i limbs, or 0
RECURSIVE TopLimb(_, _)
TopLimb(P, i) == IF i = 0 THEN 0 ELSE IF P[i] # 0 THEN i ELSE TopLimb(P, i - 1)

\* the number of bits of x >= 0
RECURSIVE LimbBitLength(_)
LimbBitLength(x) == IF x = 0 THEN 0 ELSE 1 + LimbBitLength(x \div 2)

\* the number of bits of P
BitLength(P) ==
    CHOOSE r \in {IF j = 0 THEN 0 ELSE LimbBits * (j - 1) + LimbBitLength(P[j]) :
                     j \in {TopLimb(P, Len(P))}} : TRUE

\* the lowest n limbs of P * 2^d
ShiftLeft(P, d, n) ==
    SubSeq(Carry([i \in 1..n |-> Limb(P, i - d \div LimbBits) * 2 ^ (d % LimbBits)]), 1, n)

\* limb i of P \div 2^s
ShiftedLimb(P, s, i) ==
    Limb(P, i + s \div LimbBits) \div 2 ^ (s % LimbBits)
      + (Limb(P, i + 1 + s \div LimbBits) % 2 ^ (s % LimbBits))
          * 2 ^ (LimbBits - (s % LimbBits))

\* bit h of P (bit 0 is the lowest)
Bit(P, h) == (Limb(P, 1 + h \div LimbBits) \div 2 ^ (h % LimbBits)) % 2

\* the bits of P below bit h are all zero
LowBitsZero(P, h) ==
    /\ Limb(P, 1 + h \div LimbBits) % 2 ^ (h % LimbBits) = 0
    /\ \A i \in 1..(h \div LimbBits) : Limb(P, i) = 0

\* P \div 2^s is to be rounded up: the discarded bits are more than half a unit,
\* or exactly half and the kept part is odd
RoundsUp(P, s) == Bit(P, s - 1) = 1 /\ (~ LowBitsZero(P, s - 1) \/ Bit(P, s) = 1)

\* <<exponent, mantissa>> of (P \div 2^s + 1) * 2^e
RoundedUp(P, e, s) ==
    CHOOSE r \in {IF R[4] = 2 * TopLimbMin THEN <<e + 1, 0, 0, 0, TopLimbMin>>
                  ELSE <<e, R[1], R[2], R[3], R[4]>> :
                     R \in {Carry(<<ShiftedLimb(P, s, 1) + 1, ShiftedLimb(P, s, 2),
                                    ShiftedLimb(P, s, 3), ShiftedLimb(P, s, 4)>>)}} : TRUE

\* <<exponent, mantissa>> of P * 2^e rounded to MantissaBits bits, for P of
\* MantissaBits + s bits, s > 0
RoundShift(P, e, s) ==
    IF RoundsUp(P, s) THEN RoundedUp(P, e + s, s)
    ELSE <<e + s, ShiftedLimb(P, s, 1), ShiftedLimb(P, s, 2), ShiftedLimb(P, s, 3),
           ShiftedLimb(P, s, 4)>>

\* the float nearest to sign * P * 2^e, for P of len bits
RoundBits(sign, P, e, len) ==
    IF len = 0 THEN Zero
    ELSE IF len <= MantissaBits
         THEN <<sign, e - (MantissaBits - len)>> \o ShiftLeft(P, MantissaBits - len, 4)
         ELSE <<sign>> \o RoundShift(P, e, len - MantissaBits)

RoundLimbs(sign, P, e) ==
    CHOOSE r \in {RoundBits(sign, P, e, len) : len \in {BitLength(P)}} : TRUE

\* the float nearest to sign * P * 2^e, ties to even
Round(sign, P, e) == CHOOSE r \in {RoundLimbs(sign, p, e) : p \in {P}} : TRUE

\* <<exponent, mantissa>> of (P \div 2^s) * 2^(e + s): P * 2^e cut to MantissaBits
\* bits, for P of MantissaBits + s bits, s > 0
CutShift(P, e, s) ==
    <<e + s, ShiftedLimb(P, s, 1), ShiftedLimb(P, s, 2), ShiftedLimb(P, s, 3),
      ShiftedLimb(P, s, 4)>>

\* the floats within one unit in the last place of sign * P * 2^e, for P of
\* MantissaBits + s bits, s > 0: the number itself when it is a float, else the
\* float below it and the float above it
NeighbourBits(sign, P, e, s) ==
    IF LowBitsZero(P, s) THEN {<<sign>> \o CutShift(P, e, s)}
    ELSE {<<sign>> \o CutShift(P, e, s), <<sign>> \o RoundedUp(P, e + s, s)}

Neighbours(sign, P, e) ==
    CHOOSE r \in {NeighbourBits(sign, p, e, BitLength(p) - MantissaBits) : p \in {P}} : TRUE

\* the columns of the product of the mantissas of a and b
MulColumns(a, b) ==
    << a[3] * b[3],
       a[3] * b[4] + a[4] * b[3],
       a[3] * b[5] + a[4] * b[4] + a[5] * b[3],
       a[3] * b[6] + a[4] * b[5] + a[5] * b[4] + a[6] * b[3],
       a[4] * b[6] + a[5] * b[5] + a[6] * b[4],
       a[5] * b[6] + a[6] * b[5],
       a[6] * b[6] >>

\* x * y
FMul(x, y) ==
    CHOOSE r \in {IF a[1] = 0 \/ b[1] = 0 THEN Zero
                  ELSE Round(a[1] * b[1], Carry(MulColumns(a, b)), a[2] + b[2]) :
                     a \in {x}, b \in {y}} : TRUE

\* the limb sequences A and B compared from limb i down to limb lo: -1, 0 or 1
RECURSIVE CmpLimbs(_, _, _, _)
CmpLimbs(A, B, i, lo) ==
    IF i < lo THEN 0
    ELSE IF A[i] # B[i] THEN (IF A[i] < B[i] THEN -1 ELSE 1)
    ELSE CmpLimbs(A, B, i - 1, lo)

\* |a| compared with |b|: -1, 0 or 1
CmpMag(a, b) ==
    IF a[1] = 0 \/ b[1] = 0 THEN (IF a[1] # 0 THEN 1 ELSE IF b[1] # 0 THEN -1 ELSE 0)
    ELSE IF a[2] # b[2] THEN (IF a[2] < b[2] THEN -1 ELSE 1)
    ELSE CmpLimbs(a, b, 6, 3)

\* a compared with b: -1, 0 or 1
Cmp(a, b) ==
    IF a[1] # b[1] THEN (IF a[1] < b[1] THEN -1 ELSE 1)
    ELSE a[1] * CmpMag(a, b)

\* x < y, x <= y
FLt(x, y) == \E a \in {x}, b \in {y} : Cmp(a, b) < 0
FLeq(x, y) == \E a \in {x}, b \in {y} : Cmp(a, b) <= 0

\* a float of exponent more than MaxShift above another's absorbs it in a sum
MaxShift == 56

\* a + b for |a| >= |b| > 0: the exact sum of the mantissas, a's shifted left by
\* the difference of the exponents, rounded
AddOrdered(a, b) ==
    IF a[2] - b[2] > MaxShift THEN a
    ELSE Round(a[1],
               Carry([i \in 1..8 |->
                        Limb(Mant(a), i - (a[2] - b[2]) \div LimbBits)
                            * 2 ^ ((a[2] - b[2]) % LimbBits)
                          + a[1] * b[1] * Limb(Mant(b), i)]),
               b[2])

\* x + y
FAdd(x, y) ==
    CHOOSE r \in {IF a[1] = 0 THEN b
                  ELSE IF b[1] = 0 THEN a
                  ELSE IF CmpMag(a, b) >= 0 THEN AddOrdered(a, b) ELSE AddOrdered(b, a) :
                     a \in {x}, b \in {y}} : TRUE

\* - x
FNeg(x) == CHOOSE r \in {<<- a[1], a[2], a[3], a[4], a[5], a[6]>> : a \in {x}} : TRUE

\* abs(x)
FAbs(x) == CHOOSE r \in {<<a[1] * a[1], a[2], a[3], a[4], a[5], a[6]>> : a \in {x}} : TRUE

\* x - y
FSub(x, y) == FAdd(x, FNeg(y))

\* max(x, y)
FMax(x, y) == CHOOSE r \in {IF Cmp(a, b) >= 0 THEN a ELSE b : a \in {x}, b \in {y}} : TRUE

\* The limbs of N \div n from limb i down, for the remainder r of the limbs above;
\* a remainder left at the end makes the lowest limb non-zero, so that the
\* rounding sees that the quotient is not exact.
RECURSIVE ShortDiv(_, _, _, _, _)
ShortDiv(N, n, i, r, acc) ==
    IF i = 0 THEN (IF r # 0 /\ acc[1] = 0 THEN <<1>> \o Tail(acc) ELSE acc)
    ELSE CHOOSE q \in {ShortDiv(N, n, i - 1, cur % n, <<cur \div n>> \o acc) :
                          cur \in {r * LimbBase + N[i]}} : TRUE

\* x / n for a whole number 0 < n < LimbBase
FDivInt(x, n) ==
    CHOOSE r \in {IF a[1] = 0 THEN Zero
                  ELSE Round(a[1], ShortDiv(<<0, 0, 0, a[3], a[4], a[5], a[6]>>, d, 7, 0, <<>>),
                             a[2] - 3 * LimbBits) :
                     a \in {x}, d \in {n}} : TRUE

\* float(n) for a whole number n
FromInt(n) ==
    IF n = 0 THEN Zero
    ELSE Round(IF n < 0 THEN -1 ELSE 1, Carry(<<IF n < 0 THEN - n ELSE n, 0>>), 0)

\* the float of the decimal literal n / d, d a power of ten below LimbBase
Dec(n, d) == FDivInt(FromInt(n), d)

\* the number of quotient bits that the long division produces
QuotientBits == 70

\* One step of the long division of mantissas: S = <<remainder, quotient>>, D
\* the divisor; the next bit of the quotient is 1 when the remainder holds D.
DivStep(S, D) ==
    CHOOSE r \in {<<SubSeq(Carry([j \in 1..4 |-> 2 * (S[1][j] - bit * D[j])]), 1, 4),
                    SubSeq(Carry([j \in 1..5 |-> 2 * S[2][j] + (IF j = 1 THEN bit ELSE 0)]),
                           1, 5)>> :
                     bit \in {IF CmpLimbs(S[1], D, 4, 1) >= 0 THEN 1 ELSE 0}} : TRUE

\* n steps of the long division, by halves
RECURSIVE DivSteps(_, _, _)
DivSteps(S, D, n) ==
    IF n = 0 THEN S
    ELSE IF n = 1 THEN DivStep(S, D)
    ELSE CHOOSE r \in {DivSteps(T, D, n - n \div 2) : T \in {DivSteps(S, D, n \div 2)}} : TRUE

\* the quotient limbs of S, the lowest made non-zero when a remainder is left
Quotient(S) ==
    IF S[1] # <<0, 0, 0, 0>> /\ S[2][1] = 0 THEN <<1>> \o Tail(S[2]) ELSE S[2]

\* x / y, y not zero
FDiv(x, y) ==
    CHOOSE r \in {IF a[1] = 0 THEN Zero
                  ELSE Round(a[1] * b[1],
                             Quotient(DivSteps(<<Mant(a), <<0, 0, 0, 0, 0>>>>, Mant(b),
                                               QuotientBits)),
                             a[2] - b[2] - (QuotientBits - 1)) :
                     a \in {x}, b \in {y}} : TRUE

-----------------------------------------------------------------------------
(* Constants of the source *)

\* AIR_DENSITY = 1.225
AIR_DENSITY == Dec(1225, 1000)

\* G = 9.81
G == Dec(981, 100)

\* max_time = 300.0
max_time == FromInt(300)

\* the 0.01 of "if v <= 0.01"
StopThreshold == Dec(1, 100)

\* the 0.5 of the drag term and of the trapezoid
Half == Dec(5, 10)

\* the 2 of 2 * a_eff
Two == FromInt(2)

\* the 1000.0 of convert_kmh_to_ms
Thousand == FromInt(1000)

\* the 3.6 of convert_ms_to_kmh
KmhPerMs == Dec(36, 10)

\* the 0.05 that ABS adds to the friction
AbsBonus == Dec(5, 100)

\* the 0.01 below which calc_final_friction does not return
MinFriction == Dec(1, 100)

-----------------------------------------------------------------------------
(* Bounded inputs *)

MaxSpeedSteps == 2
MaxReactionSeconds == 1
MaxWeatherSteps == 20

\* 0, 30, 60, ... km/h
Speeds == {30000 * i : i \in 0..MaxSpeedSteps}
\* 0 s, 1 s, ...
ReactionTimes == 0..MaxReactionSeconds
\* <<dt of the numeric model, dt of the sampler>>: the steps main runs them with
\* (the default 0.01 s and 0.05 s), and 0.25 s for both (a step that adds up
\* exactly)
StepPairs == {<<1, 5>>, <<25, 25>>}
\* "Snow" and "Dry asphalt"
WeatherMus == {20, 85}
\* "Good" and "Poor"
TyreFactors == {10, 5}
\* "Flat", "Moderate uphill", "Slight downhill"
Slopes == {0, 5, -2}
\* Toyota Corolla, and the same car with drag switched off
Cars == {<<1300, 29, 22>>, <<1300, 0, 22>>}
\* the grades of SLOPE_MENU
AllSlopes == {0, 2, 5, -2, -5, -8}
\* the weather frictions 0.00, 0.05, ... on which the closed-form model is run alone
AllWeatherMus == {5 * i : i \in 0..MaxWeatherSteps}
\* "Good", "Decent" and "Poor"
AllTyreFactors == {10, 8, 5}

\* the scenarios on the grades of Slopes: every combination of the inputs
MenuScenarios ==
    WeatherMus \X TyreFactors \X BOOLEAN \X Speeds \X Slopes \X ReactionTimes
        \X StepPairs \X Cars

\* the scenarios on the steep downhill grade, on "Ice", at the tyre factors ty,
\* the speeds kmh and the steps st: without ABS friction cannot hold the car on "Poor" tyres
\* (mu = 0.05 < tan(alpha) = 0.08) and just balances the slope on "Decent"
\* ones (mu = 0.1 * 0.8)
OnSteepIce(ty, kmh, st, cars) ==
    {10} \X ty \X BOOLEAN \X kmh \X {-8} \X {1} \X st \X cars

SteepScenarios == OnSteepIce({5, 8}, {30000}, {<<25, 25>>}, Cars)

\* a crawl at 0.072 km/h (0.02 m/s) down the grade whose tangent is the
\* friction, mu = 0.1 * 0.5 on -5 %: the computed a_eff is 2^-54, not zero
CrawlScenarios ==
    {10} \X {5} \X {FALSE} \X {72} \X {-5} \X {1} \X {<<25, 25>>} \X Cars

-----------------------------------------------------------------------------
(* The kernel's pure functions, on floats *)

\* convert_kmh_to_ms: speed_kmh * 1000.0 / 3600.0
convert_kmh_to_ms(kmh) == FDivInt(FMul(kmh, Thousand), 3600)

\* convert_ms_to_kmh: speed_ms * 3.6
convert_ms_to_kmh(v) == FMul(v, KmhPerMs)

\* math.cos(math.atan(abs(slope_percent) / 100.0)) on the grades of SLOPE_MENU
CosAlpha(slope) ==
    CASE slope = 0 -> <<1, -52, 0, 0, 0, 1024>>
      [] slope \in {2, -2} -> <<1, -53, 9502, 2067, 9675, 2047>>
      [] slope \in {5, -5} -> <<1, -53, 5457, 7204, 7287, 2045>>
      [] slope \in {8, -8} -> <<1, -53, 10171, 7867, 7826, 2041>>

\* math.sin(math.atan(abs(slope_percent) / 100.0)) on the grades of SLOPE_MENU
SinAlpha(slope) ==
    CASE slope = 0 -> Zero
      [] slope \in {2, -2} -> <<1, -58, 11980, 13119, 7502, 1310>>
      [] slope \in {5, -5} -> <<1, -57, 14197, 15593, 5829, 1636>>
      [] slope \in {8, -8} -> <<1, -56, 7821, 1758, 8941, 1306>>

\* is_uphill = (slope_percent >= 0)
is_uphill(slope) == slope >= 0

\* - mu * G * math.cos(alpha)
friction_acc(m, slope) == FMul(FMul(FNeg(m), G), CosAlpha(slope))

\* slope_acc = (-G * math.sin(alpha)) if is_uphill else (G * math.sin(alpha))
slope_acc(slope) ==
    IF is_uphill(slope) THEN FMul(FNeg(G), SinAlpha(slope)) ELSE FMul(G, SinAlpha(slope))

\* a_eff = - mu * G * math.cos(alpha) + slope_acc
a_eff(m, slope) == FAdd(friction_acc(m, slope), slope_acc(slope))

\* reaction_dist = speed_ms * reaction_time
reaction_dist(kmh, rt) == FMul(convert_kmh_to_ms(kmh), rt)

\* "if abs_active: mu += 0.05"
WithAbs(m, a) == IF a THEN FAdd(m, AbsBonus) ELSE m

\* calc_final_friction without its floor
NoFrictionFloor(m) == m

\* calc_final_friction's return value: max(mu, 0.01)
FrictionFloor(m) == FMax(m, MinFriction)

\* calc_final_friction(weather_mu, tyre_factor, abs_active)
calc_final_friction(w, ty, a) == FrictionFloor(WithAbs(FMul(w, ty), a))

\* v ** 2: the floats pow(v, 2.0) may return, those within one unit in the
\* last place of the exact square
Pow2(v) ==
    IF v[1] = 0 THEN {Zero} ELSE Neighbours(1, Carry(MulColumns(v, v)), v[2] + v[2])

\* braking_dist = (speed_ms ** 2) / (2 * a_eff): the values it may take
braking_dist(kmh, a) ==
    {FDiv(sq, d) : sq \in Pow2(convert_kmh_to_ms(kmh)), d \in {FMul(Two, a)}}

\* a sentinel that reports every distance, the reaction distance too, as infinite
CannotStopAllInf(kmh, rt, a) ==
    [total_dist |-> Inf, braking_dist |-> Inf, reaction_dist |-> Inf, a_eff |-> a]

\* what stopping_distance_simple_friction returns when a_eff <= 0
CannotStop(kmh, rt, a) ==
    [total_dist |-> Inf, braking_dist |-> Inf, reaction_dist |-> reaction_dist(kmh, rt),
     a_eff |-> a]

\* the test "if a_eff <= 0" of stopping_distance_simple_friction
SimpleCannotStop(a) == a[1] <= 0

\* the distances stopping_distance_simple_friction returns when a_eff > 0
CanStop(kmh, rt, a, braking) ==
    [total_dist    |-> FAdd(reaction_dist(kmh, rt), braking),
     braking_dist  |-> braking,
     reaction_dist |-> reaction_dist(kmh, rt),
     a_eff         |-> a]

\* what stopping_distance_simple_friction returns for the a_eff it has computed:
\* the tuples it may return and, beside each, its local a_eff
SimpleResults(kmh, rt, a) ==
    IF SimpleCannotStop(a) THEN {CannotStop(kmh, rt, a)}
    ELSE {CanStop(kmh, rt, a, braking) : braking \in braking_dist(kmh, a)}

\* stopping_distance_simple_friction(speed_kmh, mu, slope_percent, reaction_time):
\* the results it may return
stopping_distance_simple_friction(kmh, m, slope, rt) ==
    CHOOSE res \in {SimpleResults(kmh, rt, a) : a \in {a_eff(m, slope)}} : TRUE

\* drag_acc = (0.5 * AIR_DENSITY * cd * frontal_area * (v ** 2)) / mass_kg: the
\* values it may take
drag_acc(v, cd, frontal_area, mass_kg) ==
    {FDivInt(FMul(k, sq), mass_kg) :
        k \in {FMul(FMul(FMul(Half, AIR_DENSITY), cd), frontal_area)}, sq \in Pow2(v)}

\* a = - mu * G * math.cos(alpha) + slope_acc - drag_acc: the values it may take
net_acc(v, m, slope, cd, frontal_area, mass_kg) ==
    {FSub(a, drag) : a \in {a_eff(m, slope)}, drag \in drag_acc(v, cd, frontal_area, mass_kg)}

\* v_new = v + a * dt
v_next(v, a, step) == FAdd(v, FMul(a, step))

\* dist_this_step = 0.5 * (v + v_new) * dt
dist_this_step(v, vn, step) == FMul(FMul(Half, FAdd(v, vn)), step)

\* the test "v_new < 0"
Negative(vn) == vn[1] < 0

\* the test "v <= 0.01" that ends both braking loops
NearZero(v) == FLeq(v, StopThreshold)

-----------------------------------------------------------------------------
(* stopping_distance_numeric_drag.  Its frame s holds the arguments, the    *)
(* locals speed_ms, reaction_dist, v, x and t, the number n of iterations   *)
(* run, and brk: the loop was left by a break.                              *)

\* the loop condition with the cap doubled
NumericLoopCondDoubled(t) == FLt(t, FAdd(max_time, max_time))

\* the loop condition "t < max_time"
NumericLoopCond(t) == FLt(t, max_time)

\* v_new = v + a * dt of the loop: the values it may take
numeric_v_new(s) ==
    {v_next(s.v, a, s.dt) :
        a \in net_acc(s.v, s.mu, s.slope_percent, s.cd, s.frontal_area, s.mass_kg)}

\* one iteration of the while loop, from the frame and the v_new it has computed
NumericIterFrom(s, vn) ==
    IF Negative(vn)
    THEN \* v_new = 0 is assigned but v, which is returned, keeps its value
         [s EXCEPT !.x = FAdd(s.x, dist_this_step(s.v, Zero, s.dt)),
                   !.n = s.n + 1, !.brk = TRUE]
    ELSE [s EXCEPT !.x = FAdd(s.x, dist_this_step(s.v, vn, s.dt)),
                   !.v = IF NearZero(vn) THEN Zero ELSE vn,
                   !.t = FAdd(s.t, s.dt),
                   !.n = s.n + 1,
                   !.brk = NearZero(vn)]

\* one iteration of the while loop: the frames it may leave
NumericIter(s) == {NumericIterFrom(s, vn) : vn \in numeric_v_new(s)}

\* the frame before the loop
NumericStart(kmh, m, mass_kg, cd, frontal_area, slope, rt, step) ==
    [mu |-> m, mass_kg |-> mass_kg, cd |-> cd, frontal_area |-> frontal_area,
     slope_percent |-> slope, reaction_time |-> rt, dt |-> step,
     speed_ms |-> convert_kmh_to_ms(kmh), reaction_dist |-> reaction_dist(kmh, rt),
     v |-> convert_kmh_to_ms(kmh), x |-> Zero, t |-> Zero, n |-> 0, brk |-> FALSE]

\* the value returned from the frame s
NumericResult(s) ==
    [total_dist    |-> FAdd(s.reaction_dist, s.x),
     reaction_dist |-> s.reaction_dist,
     braking_dist  |-> s.x,
     total_time    |-> FAdd(s.reaction_time, s.t),
     final_v       |-> s.v]

-----------------------------------------------------------------------------
(* get_distance_speed_profile.  Its two lists are only ever appended to, so   *)
(* the frame p keeps a summary of them: n = len(distance_vals),               *)
(* n_reaction = the number of samples appended by the reaction loop,          *)
(* last_dist / last_speed = distance_vals[-1] / speed_vals_kmh[-1], and       *)
(* brake_dist = distance_vals[n_reaction], the first sample of the braking    *)
(* loop (once n > n_reaction).                                                *)

\* the frame before the loops
ProfileStart(kmh, m, mass_kg, cd, frontal_area, slope, rt, step) ==
    [mu |-> m, mass_kg |-> mass_kg, cd |-> cd, frontal_area |-> frontal_area,
     slope_percent |-> slope, reaction_time |-> rt, dt |-> step,
     x |-> Zero, v |-> convert_kmh_to_ms(kmh), t |-> Zero, n |-> 0, n_reaction |-> 0,
     last_dist |-> Zero, last_speed |-> Zero, brake_dist |-> Zero, brk |-> FALSE]

\* the loop condition "t <= reaction_time" of the reaction phase
ReactionLoopCond(p) == FLeq(p.t, p.reaction_time)

\* the loop condition "t <= (reaction_time + max_time)" of the braking phase
BrakingLoopCond(p) == FLeq(p.t, FAdd(p.reaction_time, max_time))

\* one iteration of the reaction loop
ReactionIter(p) ==
    [p EXCEPT !.last_dist = p.x,
              !.last_speed = convert_ms_to_kmh(p.v),
              !.n = p.n + 1,
              !.n_reaction = p.n_reaction + 1,
              !.t = FAdd(p.t, p.dt),
              !.x = FAdd(p.x, FMul(p.v, p.dt))]

\* a clamp that reflects a negative speed instead of zeroing it
ClampReflect(vn) == IF Negative(vn) THEN FNeg(vn) ELSE vn

\* "if v_new < 0: v_new = 0" of the braking loop
Clamp(vn) == IF Negative(vn) THEN Zero ELSE vn

\* the test "if v <= 0.01: break" of the braking loop of the sampler
ProfileNearZero(v) == FLeq(v, StopThreshold)

\* v_new of the braking loop, clamped: the values it may take
profile_v_new(p) ==
    {Clamp(v_next(p.v, a, p.dt)) :
        a \in net_acc(p.v, p.mu, p.slope_percent, p.cd, p.frontal_area, p.mass_kg)}

\* one iteration of the braking loop, from the frame and its clamped v_new
BrakingIterFrom(p, vn) ==
    [p EXCEPT !.last_dist = p.x,
              !.last_speed = convert_ms_to_kmh(vn),
              !.brake_dist = IF p.n = p.n_reaction THEN p.x ELSE p.brake_dist,
              !.n = p.n + 1,
              !.x = FAdd(p.x, FMul(FMul(Half, FAdd(p.v, vn)), p.dt)),
              !.v = vn,
              !.t = FAdd(p.t, p.dt),
              !.brk = ProfileNearZero(vn)]

\* one iteration of the braking loop: the frames it may leave
BrakingIter(p) == {BrakingIterFrom(p, vn) : vn \in profile_v_new(p)}

-----------------------------------------------------------------------------
(* The state machine: one scenario, on which the kernel's functions are     *)
(* called one after the other, each once.                                    *)

\* the arguments as the floats the functions are called with
WeatherArg == Dec(weather_mu, 100)
TyreArg == Dec(tyre_factor, 10)
SpeedArg == Dec(speed_kmh, 1000)
ReactionArg == FromInt(reaction_time)
CdArg == Dec(car[2], 100)
AreaArg == Dec(car[3], 10)

NoDistances ==
    [total_dist |-> Zero, braking_dist |-> Zero, reaction_dist |-> Zero, a_eff |-> Zero]

NoFrame == [n |-> 0, brk |-> FALSE]

NoPair == [lo |-> NoFrame, hi |-> NoFrame]

NoNumeric ==
    [total_dist |-> Zero, reaction_dist |-> Zero, braking_dist |-> Zero,
     total_time |-> Zero, final_v |-> Zero]

\* the state before any call, on the scenario sc
Before(sc) ==
    /\ weather_mu = sc[1]
    /\ tyre_factor = sc[2]
    /\ abs_active = sc[3]
    /\ speed_kmh = sc[4]
    /\ slope_percent = sc[5]
    /\ reaction_time = sc[6]
    /\ dt = sc[7][1]
    /\ sample_dt = sc[7][2]
    /\ car = sc[8]
    /\ mu = Zero
    /\ simple = NoDistances
    /\ num = NoFrame
    /\ numeric = NoNumeric
    /\ prof = NoFrame
    /\ profile = NoFrame
    /\ pair = NoPair

Init ==
    /\ pc = "friction"
    /\ \E sc \in MenuScenarios \cup SteepScenarios \cup CrawlScenarios : Before(sc)

\* calc_final_friction(weather_mu, tyre_factor, abs_active)
CalcFinalFriction ==
    /\ pc = "friction"
    /\ mu' = calc_final_friction(WeatherArg, TyreArg, abs_active)
    /\ pc' = "simple"
    /\ UNCHANGED <<inputs, simple, num, numeric, prof, profile, pair>>

\* stopping_distance_simple_friction(speed_kmh, mu, slope_percent, reaction_time)
SimpleFriction ==
    /\ pc = "simple"
    /\ simple' \in stopping_distance_simple_friction(SpeedArg, mu, slope_percent,
                                                    ReactionArg)
    /\ num' = NumericStart(SpeedArg, mu, car[1], CdArg, AreaArg, slope_percent,
                           ReactionArg, Dec(dt, 100))
    /\ pc' = "numeric"
    /\ UNCHANGED <<inputs, mu, numeric, prof, profile, pair>>

\* one iteration of the loop of stopping_distance_numeric_drag
NumericStep ==
    /\ pc = "numeric"
    /\ ~ num.brk
    /\ NumericLoopCond(num.t)
    /\ num' \in NumericIter(num)
    /\ UNCHANGED <<pc, inputs, mu, simple, numeric, prof, profile, pair>>

\* the loop is over: stopping_distance_numeric_drag returns
NumericReturn ==
    /\ pc = "numeric"
    /\ num.brk \/ ~ NumericLoopCond(num.t)
    /\ numeric' = NumericResult(num)
    /\ prof' = ProfileStart(SpeedArg, mu, car[1], CdArg, AreaArg, slope_percent,
                            ReactionArg, Dec(sample_dt, 100))
    /\ pc' = "profile_reaction"
    /\ UNCHANGED <<inputs, mu, simple, num, profile, pair>>

\* one iteration of the reaction loop of get_distance_speed_profile
ProfileReactionStep ==
    /\ pc = "profile_reaction"
    /\ ReactionLoopCond(prof)
    /\ prof' = ReactionIter(prof)
    /\ UNCHANGED <<pc, inputs, mu, simple, num, numeric, profile, pair>>

\* the reaction loop is over
ProfileReactionEnd ==
    /\ pc = "profile_reaction"
    /\ ~ ReactionLoopCond(prof)
    /\ pc' = "profile_braking"
    /\ UNCHANGED <<inputs, mu, simple, num, numeric, prof, profile, pair>>

\* one iteration of the braking loop of get_distance_speed_profile
ProfileBrakingStep ==
    /\ pc = "profile_braking"
    /\ ~ prof.brk
    /\ BrakingLoopCond(prof)
    /\ prof' \in BrakingIter(prof)
    /\ UNCHANGED <<pc, inputs, mu, simple, num, numeric, profile, pair>>

\* the braking loop is over: get_distance_speed_profile returns its lists
ProfileReturn ==
    /\ pc = "profile_braking"
    /\ prof.brk \/ ~ BrakingLoopCond(prof)
    /\ profile' = prof
    /\ pc' = "done"
    /\ UNCHANGED <<inputs, mu, simple, num, numeric, prof, pair>>

Next ==
    \/ CalcFinalFriction
    \/ SimpleFriction
    \/ NumericStep
    \/ NumericReturn
    \/ ProfileReactionStep
    \/ ProfileReactionEnd
    \/ ProfileBrakingStep
    \/ ProfileReturn

Spec == Init /\ [][Next]_vars

\* the scenarios of the fair specification: the steep downhill grade on "Poor"
\* tyres, where the car without ABS speeds up until the time cap: without drag
\* from 28.8 km/h (8 m/s, whose square is a float) at the steps of main, with
\* and without drag from 30 km/h at the step 0.25 s
FairScenarios ==
    OnSteepIce({5}, {28800}, {<<1, 5>>}, {<<1300, 0, 22>>})
        \cup OnSteepIce({5}, {30000}, {<<25, 25>>}, Cars)

FairInit ==
    /\ pc = "friction"
    /\ \E sc \in FairScenarios : Before(sc)

\* the kernel is sequential code: whatever step is enabled is eventually taken
FairSpec == FairInit /\ [][Next]_vars /\ WF_vars(Next)

-----------------------------------------------------------------------------
(* The closed-form model alone, after calc_final_friction, on every grade of *)
(* SLOPE_MENU and on the whole range of the weather friction.                *)

ClosedFormScenarios ==
    AllWeatherMus \X AllTyreFactors \X BOOLEAN \X Speeds \X AllSlopes \X ReactionTimes
        \X {<<1, 5>>} \X {<<1300, 29, 22>>}

ClosedFormInit ==
    /\ pc = "friction"
    /\ \E sc \in ClosedFormScenarios : Before(sc)

\* stopping_distance_simple_friction(speed_kmh, mu, slope_percent, reaction_time)
\* returns
SimpleReturn ==
    /\ pc = "simple"
    /\ simple' \in stopping_distance_simple_friction(SpeedArg, mu, slope_percent,
                                                    ReactionArg)
    /\ pc' = "simple_done"
    /\ UNCHANGED <<inputs, mu, num, numeric, prof, profile, pair>>

ClosedFormNext == CalcFinalFriction \/ SimpleReturn

ClosedFormSpec == ClosedFormInit /\ [][ClosedFormNext]_vars

-----------------------------------------------------------------------------
(* Two calls of each scalar model that differ only in the initial speed: the *)
(* two numeric loops run side by side, so that the results meet in one state. *)

\* the speed of the second call
HigherSpeed == speed_kmh + 30000

\* whether the loop of the frame s is still running
NumericRunning(s) == ~ s.brk /\ NumericLoopCond(s.t)

\* the frames a running loop may be in after one more iteration; that of a loop
\* that has ended stays
PairIter(s) == IF NumericRunning(s) THEN NumericIter(s) ELSE {s}

\* the pairs of calls: the scenarios on the grades of Slopes without a reaction
\* time (the reaction distance only adds a multiple of the speed to the totals)
PairScenarios ==
    WeatherMus \X TyreFactors \X BOOLEAN \X Speeds \X Slopes \X {0} \X StepPairs \X Cars

PairInit ==
    /\ pc = "pair"
    /\ \E sc \in PairScenarios :
          /\ weather_mu = sc[1]
          /\ tyre_factor = sc[2]
          /\ abs_active = sc[3]
          /\ speed_kmh = sc[4]
          /\ slope_percent = sc[5]
          /\ reaction_time = sc[6]
          /\ dt = sc[7][1]
          /\ sample_dt = sc[7][2]
          /\ car = sc[8]
    /\ mu = calc_final_friction(WeatherArg, TyreArg, abs_active)
    /\ simple \in stopping_distance_simple_friction(SpeedArg, mu, slope_percent,
                                                   ReactionArg)
    /\ num = NoFrame
    /\ numeric = NoNumeric
    /\ prof = NoFrame
    /\ profile = NoFrame
    /\ pair = [lo |-> NumericStart(SpeedArg, mu, car[1], CdArg, AreaArg, slope_percent,
                                   ReactionArg, Dec(dt, 100)),
               hi |-> NumericStart(Dec(HigherSpeed, 1000), mu, car[1], CdArg, AreaArg,
                                   slope_percent, ReactionArg, Dec(dt, 100))]

\* one iteration of each of the two loops that is still running
PairStep ==
    /\ pc = "pair"
    /\ {s \in {pair.lo, pair.hi} : NumericRunning(s)} # {}
    /\ \E lo \in PairIter(pair.lo), hi \in PairIter(pair.hi) : pair' = [lo |-> lo, hi |-> hi]
    /\ UNCHANGED <<pc, inputs, mu, simple, num, numeric, prof, profile>>

\* both calls return
PairReturn ==
    /\ pc = "pair"
    /\ ~ NumericRunning(pair.lo)
    /\ ~ NumericRunning(pair.hi)
    /\ pc' = "pair_done"
    /\ UNCHANGED <<inputs, mu, simple, num, numeric, prof, profile, pair>>

PairNext == PairStep \/ PairReturn

PairSpec == PairInit /\ [][PairNext]_vars

-----------------------------------------------------------------------------
(* Properties *)

SimpleDone == pc \in {"numeric", "profile_reaction", "profile_braking", "done", "simple_done"}
NumericEntered == pc \in {"numeric", "profile_reaction", "profile_braking", "done"}
NumericDone == pc \in {"profile_reaction", "profile_braking", "done"}
ProfileDone == pc = "done"

speed_ms == convert_kmh_to_ms(SpeedArg)

\* drag switched off: dragCoefficient = 0 or frontalAreaM2 = 0
DragOff == car[2] = 0 \/ car[3] = 0

\* whether the float x is finite
Finite(x) == x # Inf

\* the effective acceleration -mu*g*cos(alpha) + slopeAcceleration, as the
\* kernel computes it, is not positive: friction holds the car against the slope
FrictionHolds == a_eff(mu, slope_percent)[1] <= 0

\* the elapsed time of the sampler's frame p exceeds its limit
ElapsedExceeds(p, limit) == FLt(limit, p.t)

\* C1: the closed-form model returns total = braking = +infinity (reaction
\* distance finite) exactly when effectiveAcceleration >= 0, and finite distances
\* whenever effectiveAcceleration < 0.
C1_SentinelIffUnstoppable ==
    SimpleDone =>
        /\ simple.a_eff[1] >= 0 => /\ simple.total_dist = Inf
                                   /\ simple.braking_dist = Inf
                                   /\ Finite(simple.reaction_dist)
        /\ simple.a_eff[1] < 0 => /\ Finite(simple.total_dist)
                                  /\ Finite(simple.braking_dist)

\* x is within tol of y
Near(x, y, tol) == FLeq(FAbs(FSub(x, y)), tol)

\* C2: for every stoppable input the closed-form model returns
\* braking = speedMs^2 / (2 |effectiveAcceleration|) and total = reaction + braking;
\* on a flat road with no reaction time total = speedMs^2 / (2 mu g); and for
\* 60 km/h, mu = 0.7, flat, 1.0 s the braking distance is about 40.46 m and the
\* total about 57.13 m (to the centimetre).
C2_ClosedFormDistances ==
    SimpleDone /\ simple.a_eff[1] < 0 =>
        /\ Finite(simple.braking_dist)
        /\ simple.braking_dist \in braking_dist(SpeedArg, FAbs(simple.a_eff))
        /\ simple.total_dist = FAdd(simple.reaction_dist, simple.braking_dist)
        /\ slope_percent = 0 /\ reaction_time = 0 =>
               \E sq \in Pow2(speed_ms) :
                   simple.total_dist = FDiv(sq, FMul(FMul(Two, mu), G))
        /\ speed_kmh = 60 * 1000 /\ mu = Dec(7, 10) /\ slope_percent = 0 /\ reaction_time = 1 =>
               /\ Near(simple.braking_dist, Dec(4046, 100), Dec(1, 100))
               /\ Near(simple.total_dist, Dec(5713, 100), Dec(1, 100))

\* C3: with everything else fixed, a higher initial speed gives a strictly
\* greater totalDistance, in the closed-form model and in the numeric model.
C3_SpeedMonotone ==
    pc = "pair_done" =>
        /\ \A higher \in stopping_distance_simple_friction(Dec(HigherSpeed, 1000), mu,
                                                           slope_percent, ReactionArg) :
               FLt(simple.total_dist, higher.total_dist)
        /\ FLt(NumericResult(pair.lo).total_dist, NumericResult(pair.hi).total_dist)

\* C4: with drag switched off, for every stoppable scenario the numeric model's
\* totalDistance differs from the closed-form model's by at most speedMs * dt.
C4_NumericMatchesClosedForm ==
    NumericDone /\ DragOff /\ simple.a_eff[1] < 0 =>
        /\ Finite(simple.total_dist)
        /\ Near(numeric.total_dist, simple.total_dist, FMul(speed_ms, num.dt))

\* the last sample of a sampler that the time cap did not end is a stopped speed
LastSampleStopped ==
    ProfileDone /\ ~ ElapsedExceeds(profile, FAdd(profile.reaction_time, max_time))
        => FLeq(profile.last_speed, convert_ms_to_kmh(StopThreshold))

\* C5 as stated: for every admissible input the speed samples of the profile
\* sampler never increase from the first braking-phase sample onward, and the
\* last sample's speed is at most 0.01 m/s unless the time cap ended the loop.
C5_SpeedsNonIncreasing_AsStated ==
    /\ [][pc = "profile_braking" /\ prof.n > prof.n_reaction /\ prof'.n = prof.n + 1
            => FLeq(prof'.last_speed, prof.last_speed)]_vars
    /\ []LastSampleStopped

\* C5 amended: for every admissible input whose effective acceleration
\* -mu*g*cos(alpha) + slopeAcceleration, as the sampler computes it, is not
\* positive (every flat or uphill road, and the downhill roads on which the
\* computed friction term at least cancels the slope term), the speed samples
\* never increase from the first braking-phase sample onward; and for every
\* input the last sample's speed is at most 0.01 m/s unless the time cap ended
\* the loop.
C5_SpeedsNonIncreasing ==
    /\ [][pc = "profile_braking" /\ prof.n > prof.n_reaction /\ prof'.n = prof.n + 1
          /\ FrictionHolds
            => FLeq(prof'.last_speed, prof.last_speed)]_vars
    /\ []LastSampleStopped

\* a sampled braking phase of several samples that slowed down to a stop
C5_Witness ==
    /\ ProfileDone
    /\ FrictionHolds
    /\ profile.n >= profile.n_reaction + 3
    /\ ~ ElapsedExceeds(profile, FAdd(profile.reaction_time, max_time))
    /\ FLeq(profile.last_speed, convert_ms_to_kmh(StopThreshold))
    /\ speed_kmh > 0

\* C6: whenever the numeric model's braking loop ends before the 300 s cap, by
\* the clamp or by the 0.01 m/s threshold, the finalVelocity it returns is at
\* most 0.01 m/s.
C6_FinalVelocityStopped ==
    NumericDone /\ num.brk => FLeq(numeric.final_v, StopThreshold)

\* C7: the reaction distance returned by the closed-form model (the unstoppable
\* sentinel included) and by the numeric model equals speedMs * reactionTime.
C7_ReactionDistance ==
    /\ SimpleDone => simple.reaction_dist = FMul(speed_ms, ReactionArg)
    /\ NumericDone => numeric.reaction_dist = FMul(speed_ms, ReactionArg)

\* both models returned, the closed-form one its sentinel, after a real reaction phase
C7_Witness ==
    /\ NumericDone
    /\ simple.total_dist = Inf
    /\ speed_kmh > 0
    /\ reaction_time > 0
    /\ simple.reaction_dist[1] > 0
    /\ Finite(simple.reaction_dist)
    /\ numeric.reaction_dist = simple.reaction_dist

\* weatherBaseMu * tyreFactor + (0.05 if absActive else 0)
RawFriction == WithAbs(FMul(WeatherArg, TyreArg), abs_active)

\* C8: calc_final_friction returns
\* max(weatherBaseMu * tyreFactor + (0.05 if absActive else 0), 0.01), so its
\* result is at least 0.01 and never zero or negative.
C8_FrictionFloor ==
    pc # "friction" =>
        /\ FLeq(MinFriction, mu)
        /\ mu[1] > 0
        /\ FLeq(RawFriction, mu)
        /\ mu = MinFriction \/ mu = RawFriction

\* the floor applied: a product of zero without ABS
C8_Witness ==
    /\ pc # "friction"
    /\ weather_mu = 0
    /\ ~ abs_active
    /\ RawFriction = Zero
    /\ mu = MinFriction

\* the smallest k with k * d >= n
CeilDiv(n, d) == (n + d - 1) \div d

\* ceil(seconds / step) for a step in hundredths of a second
StepsIn(seconds, step) == CeilDiv(100 * seconds, step)

\* what C9 says of the numeric model's elapsed time: never beyond 300 s plus one step
NumericTimeCapped == NumericEntered => FLeq(num.t, FAdd(max_time, num.dt))

\* what C9 says of the sampler: the sequence stays finite, the braking phase
\* starts once the elapsed time exceeds reactionTime, and the braking loop ends
\* on the 0.01 m/s threshold or once the elapsed time exceeds reactionTime + 300 s
SamplerLoopsEnd ==
    /\ pc \in {"profile_reaction", "profile_braking"} =>
          prof.n <= StepsIn(reaction_time + 300, sample_dt) + 1
    /\ pc = "profile_braking" => ElapsedExceeds(prof, prof.reaction_time)
    /\ ProfileDone =>
          \/ FLeq(profile.v, StopThreshold)
          \/ ElapsedExceeds(profile, FAdd(profile.reaction_time, max_time))

\* C9 as stated: both integration loops terminate.  The numeric model's braking
\* loop runs at most ceil(300 / dt) iterations and its elapsed braking time never
\* exceeds 300 s plus one step; the sampler's reaction loop ends once the
\* elapsed time exceeds reactionTime, its braking loop ends on the 0.01 m/s
\* threshold or once the elapsed time exceeds reactionTime + 300 s, its
\* sequence is finite, and every call returns.
C9_Termination_AsStated ==
    /\ [](/\ num.n <= StepsIn(300, dt)
          /\ NumericTimeCapped
          /\ SamplerLoopsEnd)
    /\ <>ProfileDone

\* the step sizes C9 is established for: those main passes (0.01 s to the
\* numeric model, 0.05 s to the sampler) and 0.25 s for both
CheckedSteps == <<dt, sample_dt>> \in StepPairs

\* C9 amended: at the step sizes main passes (dt = 0.01 s to the numeric model,
\* 0.05 s to the sampler) and at dt = 0.25 s, both integration loops terminate.
\* The numeric model's braking loop runs at most ceil(300 / dt) + 1 iterations
\* (the float sum t += dt can stay below 300 for one more step) and its elapsed
\* braking time never exceeds 300 s plus one step; the sampler's reaction loop
\* ends once the elapsed time exceeds reactionTime, its braking loop ends on the
\* 0.01 m/s threshold or once the elapsed time exceeds reactionTime + 300 s,
\* its sequence is finite, and every call returns.  Nothing is said of other
\* step sizes.
C9_Termination ==
    /\ [](CheckedSteps =>
            /\ num.n <= StepsIn(300, dt) + 1
            /\ NumericTimeCapped
            /\ SamplerLoopsEnd)
    /\ (CheckedSteps => <>ProfileDone)

\* a vehicle that never slowed down, at the step 0.01 s: the numeric loop ran
\* ceil(300 / dt) + 1 iterations into the time cap, and so did the sampler
C9_Witness ==
    /\ ProfileDone
    /\ CheckedSteps
    /\ speed_kmh > 0
    /\ dt = 1
    /\ FLeq(speed_ms, numeric.final_v)
    /\ num.n = StepsIn(300, dt) + 1
    /\ ~ num.brk
    /\ FLeq(speed_ms, profile.v)
    /\ ElapsedExceeds(profile, FAdd(profile.reaction_time, max_time))

\* the float sums of the reaction loop are allowed a tenth of a millimetre
Tolerance == Dec(1, 10000)

\* C10: the distance of the sampler's first braking-phase sample equals the
\* reaction distance speedMs * reactionTime of the scalar models (up to the
\* rounding of the float sums).
C10_BrakingStartsAtReactionDistance ==
    ProfileDone /\ profile.n > profile.n_reaction =>
        /\ Near(profile.brake_dist, numeric.reaction_dist, Tolerance)
        /\ numeric.reaction_dist = simple.reaction_dist

====
